---- MODULE Spec2Model ----
(***************************************************************************)
(* A model of ResourceGetter.py: the module-level parser registry and      *)
(* incidents, and the ResourceManager (construction with eager load, get,  *)
(* info, override, remove_override, register_parser, register_transformer).*)
(*                                                                         *)
(* Python strings are sequences of one-character strings, so that split,   *)
(* rpartition, lower, glob and the "*" test are computed, not assumed.     *)
(* Parsed file data is a tagged tree: a dict keeps its insertion order.    *)
(***************************************************************************)
EXTENDS Integers, Sequences, FiniteSets, TLC

(***************************************************************************)
(* Strings                                                                 *)
(***************************************************************************)
\* `c in s` for a one-character c
Contains(s, c) == \E i \in 1..Len(s) : s[i] = c

\* the largest index of c in s, 0 when c does not occur (str.rfind + 1)
RFind(s, c) ==
    IF Contains(s, c)
    THEN CHOOSE i \in 1..Len(s) : s[i] = c /\ \A j \in (i+1)..Len(s) : s[j] # c
    ELSE 0

\* s.rpartition(c)[2]: what follows the last c, the whole of s when c is absent
RPartitionTail(s, c) == SubSeq(s, RFind(s, c) + 1, Len(s))

\* the smallest index of c in s, 0 when c does not occur
Find(s, c) ==
    IF Contains(s, c)
    THEN CHOOSE i \in 1..Len(s) : s[i] = c /\ \A j \in 1..(i-1) : s[j] # c
    ELSE 0

\* s.split("."): always at least one part, empty parts kept
RECURSIVE Split(_)
Split(s) ==
    IF Find(s, ".") = 0
    THEN <<s>>
    ELSE <<SubSeq(s, 1, Find(s, ".") - 1)>> \o Split(SubSeq(s, Find(s, ".") + 1, Len(s)))

\* str.lower() on the letters that occur in the model's extensions
LowerChar(c) ==
    CASE c = "J" -> "j"
      [] c = "S" -> "s"
      [] c = "O" -> "o"
      [] c = "N" -> "n"
      [] c = "T" -> "t"
      [] c = "X" -> "x"
      [] OTHER -> c

Lower(s) == [i \in 1..Len(s) |-> LowerChar(s[i])]

\* str(i) for a natural number i
RECURSIVE StrOfNat(_)
StrOfNat(i) ==
    LET d == <<"0", "1", "2", "3", "4", "5", "6", "7", "8", "9">>
    IN  IF i < 10 THEN <<d[i + 1]>> ELSE StrOfNat(i \div 10) \o <<d[(i % 10) + 1]>>

\* pathlib glob of one name against one pattern, "*" matching any run of characters
RECURSIVE GlobMatch(_, _)
GlobMatch(pat, s) ==
    IF pat = <<>> THEN s = <<>>
    ELSE IF Head(pat) = "*"
         THEN GlobMatch(Tail(pat), s) \/ (s # <<>> /\ GlobMatch(pat, Tail(s)))
         ELSE s # <<>> /\ Head(s) = Head(pat) /\ GlobMatch(Tail(pat), Tail(s))

(***************************************************************************)
(* Parsed data: leaves, dicts (insertion-ordered items) and lists          *)
(***************************************************************************)
Leaf(v) == [t |-> "leaf", v |-> v]
Dict(items) == [t |-> "dict", items |-> items]
List(elems) == [t |-> "list", elems |-> elems]

\* isinstance(data, dict) / isinstance(data, list)
IsDict(data) == data.t = "dict"
IsList(data) == data.t = "list"

\* k in data.keys(), for a dict
HasKey(data, k) == \E i \in 1..Len(data.items) : data.items[i][1] = k

\* data[k], for a dict that has k
Item(data, k) == data.items[CHOOSE i \in 1..Len(data.items) : data.items[i][1] = k][2]

\* Python dict as a function; d.update(e) keeps d's entries that e does not set
Update(d, e) == e @@ d
Empty == [k \in {} |-> 0]

(***************************************************************************)
(* Severities and errors                                                   *)
(***************************************************************************)
MESSAGE == 0
WARNING == 1
ERROR == 2

\* the severities Incident.set_severity accepts
Severities == {ERROR, WARNING, MESSAGE}

\* the names of the module's incidents
Incidents == {"Wildcard", "ExpectedFile", "UnknownExtension"}

\* the severities the module gives its incidents when it is loaded
DefaultSeverity ==
    [i \in Incidents |->
        CASE i = "Wildcard" -> MESSAGE
          [] i = "ExpectedFile" -> ERROR
          [] i = "UnknownExtension" -> ERROR]

\* Incident.__call__: "RGError" when the incident raises, "ok" when it only reports
IncidentCall(sev, name) == IF sev[name] = ERROR THEN "RGError" ELSE "ok"

(***************************************************************************)
(* Parsers and transformers (the callables a caller hands in)              *)
(***************************************************************************)
\* the tree a second, caller-written parser returns for any file
CustomTree == Dict(<< << <<"a">>, Dict(<< << <<"b">>, Leaf(9) >> >>) >> >>)

\* x_parser(path): parse_json returns the tree stored in the file
Parse(parser, data) == IF parser = "parse_json" THEN data ELSE CustomTree

Parsers == {"parse_json", "custom"}

\* the registry after the module is loaded without the optional yaml package
DefaultParsers == (<<"j", "s", "o", "n">> :> "parse_json")

\* _D_PARSERS.get(s_extension.lower(), None)
ParserFor(parsers, s_extension) ==
    IF Lower(s_extension) \in DOMAIN parsers THEN parsers[Lower(s_extension)] ELSE "None"

\* two transformer rules: "add10" accepts every number, "add20" numbers from 2 on
Rules == {"add10", "add20"}

\* x_check(value)
RuleCheck(rule, value) ==
    /\ value.t = "leaf"
    /\ (rule = "add20" => value.v >= 2)

\* x_transform(value)
RuleTransform(rule, value) ==
    IF rule = "add10" THEN Leaf(value.v + 10) ELSE Leaf(value.v + 20)

\* the loop of get over _XAA_TRANSFORMERS[::-1], from index i down: the value
\* returned and the rules whose check was called, in the order of the calls
RECURSIVE TransformFrom(_, _, _, _)
TransformFrom(xforms, i, value, checked) ==
    IF i = 0 THEN [value |-> value, checked |-> checked]
    ELSE IF RuleCheck(xforms[i], value)
         THEN [value |-> RuleTransform(xforms[i], value),
               checked |-> Append(checked, xforms[i])]
         ELSE TransformFrom(xforms, i - 1, value, Append(checked, xforms[i]))

\* the transformer loop without the [::-1]: oldest rule first
RECURSIVE TransformForward(_, _, _, _)
TransformForward(xforms, i, value, checked) ==
    IF i > Len(xforms) THEN [value |-> value, checked |-> checked]
    ELSE IF RuleCheck(xforms[i], value)
         THEN [value |-> RuleTransform(xforms[i], value),
               checked |-> Append(checked, xforms[i])]
         ELSE TransformForward(xforms, i + 1, value, Append(checked, xforms[i]))

ApplyTransformersOldestFirst(xforms, value) == TransformForward(xforms, 1, value, <<>>)

ApplyTransformers(xforms, value) == TransformFrom(xforms, Len(xforms), value, <<>>)

\* type(value).__name__, the key of the process-wide _D_TYPES
TypeName(value) ==
    CASE value.t = "leaf" -> "int"
      [] value.t = "dict" -> "dict"
      [] value.t = "list" -> "list"

\* _D_TYPES[typ](value): an instance of the RG<type> subclass, equal to the value.
\* The model's values are numbers, dicts and lists; Python refuses to build the
\* subclass for bool and NoneType, which the model's files and overrides never hold.
Wrap(value) == [t |-> "RG", type |-> TypeName(value), value |-> value]

(***************************************************************************)
(* The flattener                                                           *)
(***************************************************************************)
RECURSIVE d_flatten(_, _, _)
RECURSIVE FlattenItems(_, _, _, _, _)
RECURSIVE FlattenElems(_, _, _, _, _)

\* the loop over data.items() from item i on, flattened being what was set so far
FlattenItems(items, i, s_path, s_prefix, flattened) ==
    IF i > Len(items) THEN flattened
    ELSE LET s_new_key == s_prefix \o items[i][1]
             value == items[i][2]
         IN  FlattenItems(items, i + 1, s_path, s_prefix,
                 IF IsDict(value)
                 THEN Update(flattened, d_flatten(value, s_path, s_new_key \o <<".">>))
                 ELSE Update(flattened, s_new_key :> <<value, s_path>>))

\* the loop over enumerate(data) from element i on (i counts from 1, the index from 0)
FlattenElems(elems, i, s_path, s_prefix, flattened) ==
    IF i > Len(elems) THEN flattened
    ELSE FlattenElems(elems, i + 1, s_path, s_prefix,
             Update(flattened,
                    d_flatten(elems[i], s_path, s_prefix \o StrOfNat(i - 1) \o <<".">>)))

\* the flattener, were it to start the keys of a nested map afresh (no prefix)
RECURSIVE d_flatten_short_keys(_, _, _)
RECURSIVE FlattenItemsShort(_, _, _, _, _)
FlattenItemsShort(items, i, s_path, s_prefix, flattened) ==
    IF i > Len(items) THEN flattened
    ELSE LET s_new_key == s_prefix \o items[i][1]
             value == items[i][2]
         IN  FlattenItemsShort(items, i + 1, s_path, s_prefix,
                 IF IsDict(value)
                 THEN Update(flattened, d_flatten_short_keys(value, s_path, <<>>))
                 ELSE Update(flattened, s_new_key :> <<value, s_path>>))

d_flatten_short_keys(data, s_path, s_prefix) ==
    IF IsDict(data) THEN FlattenItemsShort(data.items, 1, s_path, s_prefix, Empty)
    ELSE IF IsList(data) THEN FlattenElems(data.elems, 1, s_path, s_prefix, Empty)
    ELSE Empty

\* d_flatten(data, s_path, s_prefix): flattened key -> <<value, s_path>>
d_flatten(data, s_path, s_prefix) ==
    IF IsDict(data) THEN FlattenItems(data.items, 1, s_path, s_prefix, Empty)
    ELSE IF IsList(data) THEN FlattenElems(data.elems, 1, s_path, s_prefix, Empty)
    ELSE Empty

(***************************************************************************)
(* State                                                                   *)
(***************************************************************************)
VARIABLES
    disk,               \* directory -> its files in listing order, each [name, data]
    D_PARSERS,          \* the module's parser registry: format -> parser
    D_TYPES,            \* the module's registry of RG<type> subclasses (their type names)
    severity,           \* incident name -> its severity
    alive,              \* the managers that have been constructed
    S_PREFIX,           \* manager -> category
    SOURCE,             \* manager -> list of directories
    D_DATA,             \* manager -> cache: key -> <<value, path>>
    D_OVERRIDES,        \* manager -> override table: key -> <<value, "override">>
    XAA_TRANSFORMERS,   \* manager -> list of transformer rules, in registration order
    last,               \* the last call made and how it ended
    before              \* what a manager answered for a key when the override, or the
                        \* remove_override, that is being followed was called

vars == <<disk, D_PARSERS, D_TYPES, severity, alive, S_PREFIX, SOURCE, D_DATA,
          D_OVERRIDES, XAA_TRANSFORMERS, last, before>>

Managers == {1, 2}

\* the label of an override entry, as a string of characters
OVERRIDE == <<"o", "v", "e", "r", "r", "i", "d", "e">>

NoValue == [t |-> "none"]

\* no override or remove_override call is being followed
NoSnap == [valid |-> FALSE]

\* how a call ended: st is "ok" or the exception raised, msg the exception's message
\* (for register_parser, which returns nothing, the parser it was given)
Outcome(op, m, key, reload, st, msg, value, source, checked, pre) ==
    [op |-> op, m |-> m, key |-> key, reload |-> reload, st |-> st, msg |-> msg,
     value |-> value, source |-> source, checked |-> checked, pre |-> pre]

\* a call that returns nothing
Done(op, m, key) == Outcome(op, m, key, FALSE, "ok", "", NoValue, <<>>, <<>>, <<>>)

(***************************************************************************)
(* Discovery                                                               *)
(***************************************************************************)
\* _get_source_files: the files of directory p named <category>.<anything>
RECURSIVE GlobFrom(_, _, _, _)
GlobFrom(listing, i, s_prefix, p) ==
    IF i > Len(listing) THEN <<>>
    ELSE (IF GlobMatch(s_prefix \o <<".", "*">>, listing[i].name)
          THEN << [path |-> p \o <<"/">> \o listing[i].name, data |-> listing[i].data] >>
          ELSE <<>>)
         \o GlobFrom(listing, i + 1, s_prefix, p)

get_source_files(fs, s_prefix, p) ==
    IF p \in DOMAIN fs THEN GlobFrom(fs[p], 1, s_prefix, p) ELSE <<>>

\* _get_all_source_files: every directory's files, each with its extension
RECURSIVE AllFrom(_, _, _, _)
AllFrom(fs, s_prefix, source, i) ==
    IF i > Len(source) THEN <<>>
    ELSE LET fa == get_source_files(fs, s_prefix, source[i])
         IN  [k \in 1..Len(fa) |->
                 [path |-> fa[k].path, ext |-> RPartitionTail(fa[k].path, "."),
                  data |-> fa[k].data]]
             \o AllFrom(fs, s_prefix, source, i + 1)

get_all_source_files(fs, s_prefix, source) == AllFrom(fs, s_prefix, source, 1)

(***************************************************************************)
(* Lookup                                                                  *)
(***************************************************************************)
\* the while loop of _get_resource on one file: pops the leading parts that are
\* keys of the current data; data.keys() raises on anything that is not a dict
RECURSIVE Descend(_, _)
Descend(data, sa_parts) ==
    IF sa_parts = <<>> THEN [st |-> "ok", data |-> data, sa_parts |-> sa_parts]
    ELSE IF ~IsDict(data) THEN [st |-> "AttributeError", data |-> data, sa_parts |-> sa_parts]
    ELSE IF HasKey(data, Head(sa_parts))
         THEN Descend(Item(data, Head(sa_parts)), Tail(sa_parts))
         ELSE [st |-> "ok", data |-> data, sa_parts |-> sa_parts]

\* the for loop of _get_resource from file i on: sa_parts is the one list made
\* before the loop, so a file starts with what the files before it left of it
RECURSIVE ScanFrom(_, _, _, _)
ScanFrom(files, i, sa_parts, parsers) ==
    IF i > Len(files) THEN [st |-> "RGError", msg |-> "Could not find", value |-> NoValue, source |-> <<>>]
    ELSE LET x_parser == ParserFor(parsers, files[i].ext)
         IN  IF x_parser = "None" THEN ScanFrom(files, i + 1, sa_parts, parsers)
             ELSE LET r == Descend(Parse(x_parser, files[i].data), sa_parts)
                  IN  IF r.st # "ok"
                      THEN [st |-> r.st, msg |-> "keys", value |-> NoValue, source |-> <<>>]
                      ELSE IF r.sa_parts # <<>>
                           THEN ScanFrom(files, i + 1, r.sa_parts, parsers)
                           ELSE [st |-> "ok", msg |-> "", value |-> r.data,
                                 source |-> files[i].path]

\* _get_resource without the wildcard test: a key with "*" goes on to the scan
get_resource_no_wildcard_test(files, parsers, overrides, data, s_resource, b_reload) ==
    IF s_resource \in DOMAIN overrides
    THEN [st |-> "ok", msg |-> "", value |-> overrides[s_resource][1],
          source |-> overrides[s_resource][2], data |-> data]
    ELSE IF s_resource \in DOMAIN data /\ ~b_reload
    THEN [st |-> "ok", msg |-> "", value |-> data[s_resource][1],
          source |-> data[s_resource][2], data |-> data]
    ELSE LET r == ScanFrom(files, 1, Split(s_resource), parsers)
         IN  [st |-> r.st, msg |-> r.msg, value |-> r.value, source |-> r.source,
              data |-> IF r.st = "ok"
                       THEN Update(data, s_resource :> <<r.value, r.source>>)
                       ELSE data]

\* _get_resource with the cache consulted before the override table
get_resource_cache_first(files, parsers, overrides, data, s_resource, b_reload) ==
    IF s_resource \in DOMAIN data /\ ~b_reload
    THEN [st |-> "ok", msg |-> "", value |-> data[s_resource][1],
          source |-> data[s_resource][2], data |-> data]
    ELSE IF s_resource \in DOMAIN overrides
    THEN [st |-> "ok", msg |-> "", value |-> overrides[s_resource][1],
          source |-> overrides[s_resource][2], data |-> data]
    ELSE IF Contains(s_resource, "*")
    THEN [st |-> "RGError", msg |-> "No wildcard search allowed yet!", value |-> NoValue,
          source |-> <<>>, data |-> data]
    ELSE LET r == ScanFrom(files, 1, Split(s_resource), parsers)
         IN  [st |-> r.st, msg |-> r.msg, value |-> r.value, source |-> r.source,
              data |-> IF r.st = "ok"
                       THEN Update(data, s_resource :> <<r.value, r.source>>)
                       ELSE data]

\* _get_resource, were a reload to start from an empty cache
get_resource_reload_clears(files, parsers, overrides, data, s_resource, b_reload) ==
    IF s_resource \in DOMAIN overrides
    THEN [st |-> "ok", msg |-> "", value |-> overrides[s_resource][1],
          source |-> overrides[s_resource][2], data |-> data]
    ELSE IF s_resource \in DOMAIN data /\ ~b_reload
    THEN [st |-> "ok", msg |-> "", value |-> data[s_resource][1],
          source |-> data[s_resource][2], data |-> data]
    ELSE IF Contains(s_resource, "*")
    THEN [st |-> "RGError", msg |-> "No wildcard search allowed yet!", value |-> NoValue,
          source |-> <<>>, data |-> data]
    ELSE LET r == ScanFrom(files, 1, Split(s_resource), parsers)
         IN  [st |-> r.st, msg |-> r.msg, value |-> r.value, source |-> r.source,
              data |-> IF r.st = "ok"
                       THEN Update(IF b_reload THEN Empty ELSE data,
                                   s_resource :> <<r.value, r.source>>)
                       ELSE data]

\* _get_resource, were it to store an override it answers from in the cache
get_resource_override_cached(files, parsers, overrides, data, s_resource, b_reload) ==
    IF s_resource \in DOMAIN overrides
    THEN [st |-> "ok", msg |-> "", value |-> overrides[s_resource][1],
          source |-> overrides[s_resource][2],
          data |-> Update(data, s_resource :> overrides[s_resource])]
    ELSE IF s_resource \in DOMAIN data /\ ~b_reload
    THEN [st |-> "ok", msg |-> "", value |-> data[s_resource][1],
          source |-> data[s_resource][2], data |-> data]
    ELSE IF Contains(s_resource, "*")
    THEN [st |-> "RGError", msg |-> "No wildcard search allowed yet!", value |-> NoValue,
          source |-> <<>>, data |-> data]
    ELSE LET r == ScanFrom(files, 1, Split(s_resource), parsers)
         IN  [st |-> r.st, msg |-> r.msg, value |-> r.value, source |-> r.source,
              data |-> IF r.st = "ok"
                       THEN Update(data, s_resource :> <<r.value, r.source>>)
                       ELSE data]

\* _get_resource: how it ends, the pair it returns and the cache it leaves
get_resource(files, parsers, overrides, data, s_resource, b_reload) ==
    IF s_resource \in DOMAIN overrides
    THEN [st |-> "ok", msg |-> "", value |-> overrides[s_resource][1],
          source |-> overrides[s_resource][2], data |-> data]
    ELSE IF s_resource \in DOMAIN data /\ ~b_reload
    THEN [st |-> "ok", msg |-> "", value |-> data[s_resource][1],
          source |-> data[s_resource][2], data |-> data]
    ELSE IF Contains(s_resource, "*")
    THEN [st |-> "RGError", msg |-> "No wildcard search allowed yet!", value |-> NoValue,
          source |-> <<>>, data |-> data]
    ELSE LET r == ScanFrom(files, 1, Split(s_resource), parsers)
         IN  [st |-> r.st, msg |-> r.msg, value |-> r.value, source |-> r.source,
              data |-> IF r.st = "ok"
                       THEN Update(data, s_resource :> <<r.value, r.source>>)
                       ELSE data]

\* the cache entry of a key before a call, <<>> when it has none
Entry(data, key) == IF key \in DOMAIN data THEN data[key] ELSE <<>>

(***************************************************************************)
(* Construction                                                            *)
(***************************************************************************)
\* the eager-load loop keeping the entry the cache already has for a key (no overwrite)
RECURSIVE EagerLoadNoOverwrite(_, _, _, _, _)
EagerLoadNoOverwrite(files, i, parsers, sev, data) ==
    IF i = 0 THEN [st |-> "ok", data |-> data]
    ELSE LET s_extension == RPartitionTail(files[i].path, ".")
             x_parser == ParserFor(parsers, s_extension)
         IN  IF x_parser = "None"
             THEN IF IncidentCall(sev, "UnknownExtension") = "RGError"
                  THEN [st |-> "RGError", data |-> data]
                  ELSE EagerLoadNoOverwrite(files, i - 1, parsers, sev, data)
             ELSE EagerLoadNoOverwrite(files, i - 1, parsers, sev,
                      Update(d_flatten(Parse(x_parser, files[i].data),
                                       files[i].path, <<>>), data))

\* the eager-load loop leaving the loop at a file without parser (break for continue)
RECURSIVE EagerLoadBreak(_, _, _, _, _)
EagerLoadBreak(files, i, parsers, sev, data) ==
    IF i = 0 THEN [st |-> "ok", data |-> data]
    ELSE LET s_extension == RPartitionTail(files[i].path, ".")
             x_parser == ParserFor(parsers, s_extension)
         IN  IF x_parser = "None"
             THEN IF IncidentCall(sev, "UnknownExtension") = "RGError"
                  THEN [st |-> "RGError", data |-> data]
                  ELSE [st |-> "ok", data |-> data]
             ELSE EagerLoadBreak(files, i - 1, parsers, sev,
                      Update(data, d_flatten(Parse(x_parser, files[i].data),
                                             files[i].path, <<>>)))

\* the eager-load loop of __init__ over the discovered files reversed, from file i
\* down: how it ends and the cache built so far
RECURSIVE EagerLoad(_, _, _, _, _)
EagerLoad(files, i, parsers, sev, data) ==
    IF i = 0 THEN [st |-> "ok", data |-> data]
    ELSE LET s_extension == RPartitionTail(files[i].path, ".")
             x_parser == ParserFor(parsers, s_extension)
         IN  IF x_parser = "None"
             THEN IF IncidentCall(sev, "UnknownExtension") = "RGError"
                  THEN [st |-> "RGError", data |-> data]
                  ELSE EagerLoad(files, i - 1, parsers, sev, data)
             ELSE EagerLoad(files, i - 1, parsers, sev,
                      Update(data, d_flatten(Parse(x_parser, files[i].data),
                                             files[i].path, <<>>)))

\* __init__: how it ends and the cache of the new manager
init(fs, parsers, sev, s_category, source, b_load) ==
    IF Contains(s_category, "*") /\ IncidentCall(sev, "Wildcard") = "RGError"
    THEN [st |-> "RGError", data |-> Empty]
    ELSE IF ~b_load THEN [st |-> "ok", data |-> Empty]
    ELSE LET files == get_all_source_files(fs, s_category, source)
         IN  EagerLoad(files, Len(files), parsers, sev, Empty)

\* ResourceManager(s_category, source, b_load); a constructor that raises leaves no manager
Construct(m, s_category, source, b_load) ==
    /\ m \notin alive
    /\ LET r == init(disk, D_PARSERS, severity, s_category, source, b_load)
       IN  /\ last' = Outcome("init", m, s_category, b_load, r.st,
                              IF r.st = "ok" THEN "" ELSE "incident", NoValue, <<>>, <<>>, <<>>)
           /\ IF r.st = "ok"
              THEN /\ alive' = alive \cup {m}
                   /\ S_PREFIX' = [S_PREFIX EXCEPT ![m] = s_category]
                   /\ SOURCE' = [SOURCE EXCEPT ![m] = source]
                   /\ D_DATA' = [D_DATA EXCEPT ![m] = r.data]
                   /\ D_OVERRIDES' = [D_OVERRIDES EXCEPT ![m] = Empty]
                   /\ XAA_TRANSFORMERS' = [XAA_TRANSFORMERS EXCEPT ![m] = <<>>]
              ELSE UNCHANGED <<alive, S_PREFIX, SOURCE, D_DATA, D_OVERRIDES, XAA_TRANSFORMERS>>
    /\ before' = NoSnap
    /\ UNCHANGED <<disk, D_PARSERS, D_TYPES, severity>>

(***************************************************************************)
(* The manager's operations                                                *)
(***************************************************************************)
\* the files manager m discovers now
FilesOf(m) == get_all_source_files(disk, S_PREFIX[m], SOURCE[m])

\* _get_resource of manager m in the current state
Resolve(m, s_resource, b_reload) ==
    get_resource(FilesOf(m), D_PARSERS, D_OVERRIDES[m], D_DATA[m], s_resource, b_reload)

\* what a lookup of manager m reads: the files it discovers, the parser registry,
\* its override table, cache and transformer list
View(m) ==
    [files |-> FilesOf(m), parsers |-> D_PARSERS, overrides |-> D_OVERRIDES[m],
     data |-> D_DATA[m], xforms |-> XAA_TRANSFORMERS[m]]

\* how get(s_resource, b_reload) ends and what it returns for a manager that reads v
GetOutcomeOf(v, s_resource, b_reload) ==
    LET r == get_resource(v.files, v.parsers, v.overrides, v.data, s_resource, b_reload)
    IN  IF r.st = "ok"
        THEN [st |-> "ok", msg |-> "",
              value |-> Wrap(ApplyTransformers(v.xforms, r.value).value)]
        ELSE [st |-> r.st, msg |-> r.msg, value |-> NoValue]

\* how info(s_resource) ends and the path it returns for a manager that reads v
InfoOutcomeOf(v, s_resource) ==
    LET r == get_resource(v.files, v.parsers, v.overrides, v.data, s_resource, FALSE)
    IN  [st |-> r.st, msg |-> r.msg, source |-> r.source]

\* get and info of manager m in the current state
GetOutcome(m, s_resource, b_reload) == GetOutcomeOf(View(m), s_resource, b_reload)
InfoOutcome(m, s_resource) == InfoOutcomeOf(View(m), s_resource)

\* what manager m answers for the key and what it holds, taken when
\* override(s_resource, value) is called, or (value being NoValue) when
\* remove_override(s_resource) is called; had: the key has an override at that moment
Snapshot(m, s_resource, value) ==
    [valid |-> TRUE, m |-> m, key |-> s_resource, value |-> value,
     had |-> s_resource \in DOMAIN D_OVERRIDES[m],
     get |-> GetOutcome(m, s_resource, FALSE),
     reget |-> GetOutcome(m, s_resource, TRUE),
     info |-> InfoOutcome(m, s_resource),
     cache |-> D_DATA[m],
     overrides |-> D_OVERRIDES[m],
     asked |-> FALSE,
     removed |-> FALSE]

\* override(s_resource, ...) of manager m is being followed and not yet removed
Following(m, s_resource) ==
    before.valid /\ ~before.removed /\ before.m = m /\ before.key = s_resource

\* a get or info on the key whose override is being followed is noted; one on
\* another key, or on another manager, ends the following
Asked(m, s_resource) ==
    IF Following(m, s_resource) THEN [before EXCEPT !.asked = TRUE] ELSE NoSnap

\* remove_override closes what is being followed; called on a key that has no
\* override it is followed by itself
Removed(m, s_resource) ==
    IF Following(m, s_resource) THEN [before EXCEPT !.removed = TRUE]
    ELSE IF s_resource \notin DOMAIN D_OVERRIDES[m]
         THEN [Snapshot(m, s_resource, NoValue) EXCEPT !.removed = TRUE]
         ELSE NoSnap

\* get, were it to hand out an override as it is stored, untransformed
GetRawOverride(m, s_resource, b_reload) ==
    /\ m \in alive
    /\ LET r == Resolve(m, s_resource, b_reload)
           x == IF s_resource \in DOMAIN D_OVERRIDES[m]
                THEN [value |-> r.value, checked |-> <<>>]
                ELSE ApplyTransformers(XAA_TRANSFORMERS[m], r.value)
           pre == Entry(D_DATA[m], s_resource)
       IN  IF r.st = "ok"
           THEN /\ D_DATA' = [D_DATA EXCEPT ![m] = r.data]
                /\ D_TYPES' = D_TYPES \cup {TypeName(x.value)}
                /\ last' = Outcome("get", m, s_resource, b_reload, "ok", "",
                                   Wrap(x.value), <<>>, x.checked, pre)
           ELSE /\ UNCHANGED <<D_DATA, D_TYPES>>
                /\ last' = Outcome("get", m, s_resource, b_reload, r.st, r.msg,
                                   NoValue, <<>>, <<>>, pre)
    /\ before' = Asked(m, s_resource)
    /\ UNCHANGED <<disk, D_PARSERS, severity, alive, S_PREFIX, SOURCE, D_OVERRIDES,
                   XAA_TRANSFORMERS>>

\* get, were it to drop the key's cache entry when the lookup raises
GetForgettingOnFailure(m, s_resource, b_reload) ==
    /\ m \in alive
    /\ LET r == Resolve(m, s_resource, b_reload)
           x == ApplyTransformers(XAA_TRANSFORMERS[m], r.value)
           pre == Entry(D_DATA[m], s_resource)
       IN  IF r.st = "ok"
           THEN /\ D_DATA' = [D_DATA EXCEPT ![m] = r.data]
                /\ D_TYPES' = D_TYPES \cup {TypeName(x.value)}
                /\ last' = Outcome("get", m, s_resource, b_reload, "ok", "",
                                   Wrap(x.value), <<>>, x.checked, pre)
           ELSE /\ D_DATA' = [D_DATA EXCEPT
                                 ![m] = [k \in (DOMAIN @) \ {s_resource} |-> @[k]]]
                /\ UNCHANGED D_TYPES
                /\ last' = Outcome("get", m, s_resource, b_reload, r.st, r.msg,
                                   NoValue, <<>>, <<>>, pre)
    /\ before' = Asked(m, s_resource)
    /\ UNCHANGED <<disk, D_PARSERS, severity, alive, S_PREFIX, SOURCE, D_OVERRIDES,
                   XAA_TRANSFORMERS>>

\* get(s_resource, b_reload), also manager(s_resource, b_reload)
Get(m, s_resource, b_reload) ==
    /\ m \in alive
    /\ LET r == Resolve(m, s_resource, b_reload)
           x == ApplyTransformers(XAA_TRANSFORMERS[m], r.value)
           pre == Entry(D_DATA[m], s_resource)
       IN  IF r.st = "ok"
           THEN /\ D_DATA' = [D_DATA EXCEPT ![m] = r.data]
                /\ D_TYPES' = D_TYPES \cup {TypeName(x.value)}
                /\ last' = Outcome("get", m, s_resource, b_reload, "ok", "",
                                   Wrap(x.value), <<>>, x.checked, pre)
           ELSE /\ UNCHANGED <<D_DATA, D_TYPES>>
                /\ last' = Outcome("get", m, s_resource, b_reload, r.st, r.msg,
                                   NoValue, <<>>, <<>>, pre)
    /\ before' = Asked(m, s_resource)
    /\ UNCHANGED <<disk, D_PARSERS, severity, alive, S_PREFIX, SOURCE, D_OVERRIDES,
                   XAA_TRANSFORMERS>>

\* info(s_resource)
Info(m, s_resource) ==
    /\ m \in alive
    /\ LET r == Resolve(m, s_resource, FALSE)
           pre == Entry(D_DATA[m], s_resource)
       IN  /\ D_DATA' = [D_DATA EXCEPT ![m] = r.data]
           /\ last' = Outcome("info", m, s_resource, FALSE, r.st, r.msg, NoValue,
                              r.source, <<>>, pre)
    /\ before' = Asked(m, s_resource)
    /\ UNCHANGED <<disk, D_PARSERS, D_TYPES, severity, alive, S_PREFIX, SOURCE,
                   D_OVERRIDES, XAA_TRANSFORMERS>>

\* override, were the override table one table of the class, shared by all managers
OverrideShared(m, s_resource, value) ==
    /\ m \in alive
    /\ D_OVERRIDES' = [o \in Managers |->
                          Update(D_OVERRIDES[o], s_resource :> <<value, OVERRIDE>>)]
    /\ last' = Done("override", m, s_resource)
    /\ before' = Snapshot(m, s_resource, value)
    /\ UNCHANGED <<disk, D_PARSERS, D_TYPES, severity, alive, S_PREFIX, SOURCE, D_DATA,
                   XAA_TRANSFORMERS>>

\* override(s_resource, value)
Override(m, s_resource, value) ==
    /\ m \in alive
    /\ D_OVERRIDES' = [D_OVERRIDES EXCEPT
                          ![m] = Update(@, s_resource :> <<value, OVERRIDE>>)]
    /\ last' = Done("override", m, s_resource)
    /\ before' = Snapshot(m, s_resource, value)
    /\ UNCHANGED <<disk, D_PARSERS, D_TYPES, severity, alive, S_PREFIX, SOURCE, D_DATA,
                   XAA_TRANSFORMERS>>

\* remove_override, were it to move the removed entry into the cache
RemoveOverrideToCache(m, s_resource) ==
    /\ m \in alive
    /\ D_OVERRIDES' = [D_OVERRIDES EXCEPT
                          ![m] = [k \in (DOMAIN @) \ {s_resource} |-> @[k]]]
    /\ D_DATA' = IF s_resource \in DOMAIN D_OVERRIDES[m]
                 THEN [D_DATA EXCEPT
                          ![m] = Update(@, s_resource :> D_OVERRIDES[m][s_resource])]
                 ELSE D_DATA
    /\ last' = Done("remove_override", m, s_resource)
    /\ before' = Removed(m, s_resource)
    /\ UNCHANGED <<disk, D_PARSERS, D_TYPES, severity, alive, S_PREFIX, SOURCE,
                   XAA_TRANSFORMERS>>

\* remove_override(s_resource)
RemoveOverride(m, s_resource) ==
    /\ m \in alive
    /\ D_OVERRIDES' = [D_OVERRIDES EXCEPT
                          ![m] = [k \in (DOMAIN @) \ {s_resource} |-> @[k]]]
    /\ last' = Done("remove_override", m, s_resource)
    /\ before' = Removed(m, s_resource)
    /\ UNCHANGED <<disk, D_PARSERS, D_TYPES, severity, alive, S_PREFIX, SOURCE, D_DATA,
                   XAA_TRANSFORMERS>>

\* ResourceManager.register_parser(s_format, x_parser)
RegisterParser(s_format, x_parser) ==
    /\ D_PARSERS' = Update(D_PARSERS, s_format :> x_parser)
    /\ last' = Outcome("register_parser", 0, s_format, FALSE, "ok", x_parser, NoValue,
                       <<>>, <<>>, <<>>)
    /\ before' = NoSnap
    /\ UNCHANGED <<disk, D_TYPES, severity, alive, S_PREFIX, SOURCE, D_DATA, D_OVERRIDES,
                   XAA_TRANSFORMERS>>

\* the longest transformer list the model lets a manager build
MaxTransformers == 2

\* register_transformer(x_check, x_transform), the pair being one of Rules
RegisterTransformer(m, rule) ==
    /\ m \in alive
    /\ Len(XAA_TRANSFORMERS[m]) < MaxTransformers
    /\ XAA_TRANSFORMERS' = [XAA_TRANSFORMERS EXCEPT ![m] = Append(@, rule)]
    /\ last' = Done("register_transformer", m, <<>>)
    /\ before' = NoSnap
    /\ UNCHANGED <<disk, D_PARSERS, D_TYPES, severity, alive, S_PREFIX, SOURCE, D_DATA,
                   D_OVERRIDES>>

\* INCIDENT_<name>.set_severity(i_severity)
SetSeverity(name, i_severity) ==
    /\ IF i_severity \in Severities
       THEN /\ severity' = [severity EXCEPT ![name] = i_severity]
            /\ last' = Done("set_severity", 0, <<>>)
       ELSE /\ UNCHANGED severity
            /\ last' = Outcome("set_severity", 0, <<>>, FALSE, "ValueError", "", NoValue,
                               <<>>, <<>>, <<>>)
    /\ before' = NoSnap
    /\ UNCHANGED <<disk, D_PARSERS, D_TYPES, alive, S_PREFIX, SOURCE, D_DATA, D_OVERRIDES,
                   XAA_TRANSFORMERS>>

\* the environment rewrites file i of directory p
WriteFile(p, i, data) ==
    /\ i \in 1..Len(disk[p])
    /\ disk[p][i].data # data
    /\ disk' = [disk EXCEPT ![p][i].data = data]
    /\ last' = Done("write", 0, p)
    /\ before' = NoSnap
    /\ UNCHANGED <<D_PARSERS, D_TYPES, severity, alive, S_PREFIX, SOURCE, D_DATA,
                   D_OVERRIDES, XAA_TRANSFORMERS>>

(***************************************************************************)
(* Inputs: keys, trees, file names                                         *)
(***************************************************************************)
kA == <<"a">>
kB == <<"b">>
kC == <<"c">>
kAB == <<"a", ".", "b">>
kStar == <<"a", ".", "*">>
kA0 == <<"a", ".", "0">>

\* {"a": {"b": v}}
TreeAB(v) == Dict(<< <<kA, Dict(<< <<kB, Leaf(v)>> >>)>> >>)
\* {"a": {"c": 1}, "b": 2}
TreeACB == Dict(<< <<kA, Dict(<< <<kC, Leaf(1)>> >>)>>, <<kB, Leaf(2)>> >>)
\* {"a": 1}
TreeA == Dict(<< <<kA, Leaf(1)>> >>)
\* {"a": [1]}
TreeAList == Dict(<< <<kA, List(<<Leaf(1)>>)>> >>)
\* {"a.*": 1}
TreeStar == Dict(<< <<kStar, Leaf(1)>> >>)

Category == <<"c">>
Dir1 == <<"1">>
Dir2 == <<"2">>
NameJson == <<"c", ".", "j", "s", "o", "n">>

\* two directories with one file each
Disk2(name1, data1, name2, data2) ==
    (Dir1 :> << [name |-> name1, data |-> data1] >>)
    @@ (Dir2 :> << [name |-> name2, data |-> data2] >>)

\* the state after the module is loaded, no manager made yet, with the given disk
InitWith(disks) ==
    /\ disk \in disks
    /\ D_PARSERS = DefaultParsers
    /\ D_TYPES = {}
    /\ severity = DefaultSeverity
    /\ alive = {}
    /\ S_PREFIX = [m \in Managers |-> <<>>]
    /\ SOURCE = [m \in Managers |-> <<>>]
    /\ D_DATA = [m \in Managers |-> Empty]
    /\ D_OVERRIDES = [m \in Managers |-> Empty]
    /\ XAA_TRANSFORMERS = [m \in Managers |-> <<>>]
    /\ last = Done("load", 0, <<>>)
    /\ before = NoSnap

(***************************************************************************)
(* Spec: one manager over two json files that the environment may rewrite  *)
(***************************************************************************)
Trees == {TreeAB(1), TreeAB(2), TreeACB, TreeA}
Sources == <<Dir1, Dir2>>

Init == InitWith({Disk2(NameJson, d1, NameJson, d2) : d1 \in Trees, d2 \in Trees})

Next ==
    \/ \E b_load \in BOOLEAN : Construct(1, Category, Sources, b_load)
    \/ \E k \in {kAB, kB}, b_reload \in BOOLEAN : Get(1, k, b_reload)
    \/ \E k \in {kAB, kB} : Info(1, k)
    \/ \E p \in {Dir1, Dir2}, d \in Trees : WriteFile(p, 1, d)

Spec == Init /\ [][Next]_vars

(***************************************************************************)
(* SpecStatic: one fresh manager over two json files that never change     *)
(***************************************************************************)
StaticTrees == Trees \cup {TreeAList}
StaticKeys == {kA, kB, kAB, kA0, kStar}

InitStatic ==
    InitWith({Disk2(NameJson, d1, NameJson, d2) : d1 \in StaticTrees, d2 \in StaticTrees})

NextStatic ==
    \/ \E b_load \in BOOLEAN : Construct(1, Category, Sources, b_load)
    \/ \E k \in StaticKeys, b_reload \in BOOLEAN : Get(1, k, b_reload)
    \/ \E k \in StaticKeys : Info(1, k)

SpecStatic == InitStatic /\ [][NextStatic]_vars

(***************************************************************************)
(* SpecOverride: one manager with overrides and transformers               *)
(***************************************************************************)
OverrideTrees == {TreeAB(1), TreeStar}
OverrideKeys == {kAB, kStar}
OverrideValues == {Leaf(1), Leaf(5)}

InitOverride ==
    InitWith({Disk2(NameJson, d1, NameJson, TreeAB(2)) : d1 \in OverrideTrees})

NextOverride ==
    \/ \E b_load \in BOOLEAN : Construct(1, Category, Sources, b_load)
    \/ \E k \in OverrideKeys, b_reload \in BOOLEAN : Get(1, k, b_reload)
    \/ \E k \in OverrideKeys : Info(1, k)
    \/ \E k \in OverrideKeys, v \in OverrideValues : Override(1, k, v)
    \/ \E k \in OverrideKeys : RemoveOverride(1, k)
    \/ \E r \in Rules : RegisterTransformer(1, r)
    \/ \E d \in OverrideTrees : WriteFile(Dir1, 1, d)

SpecOverride == InitOverride /\ [][NextOverride]_vars

(***************************************************************************)
(* SpecParsers: the registry changes; the second file is c.txt or c.TXT    *)
(***************************************************************************)
FmtJson == <<"j", "s", "o", "n">>
FmtJSON == <<"J", "S", "O", "N">>
FmtTxt == <<"t", "x", "t">>
FmtTXT == <<"T", "X", "T">>
Formats == {FmtJson, FmtJSON, FmtTxt, FmtTXT}
NameTxt == <<"c", ".">> \o FmtTxt
NameTXT == <<"c", ".">> \o FmtTXT

InitParsers ==
    InitWith({Disk2(NameJson, TreeAB(1), n2, TreeAB(2)) : n2 \in {NameTxt, NameTXT}})

NextParsers ==
    \/ \E f \in Formats, x \in Parsers : RegisterParser(f, x)
    \/ \E b_load \in BOOLEAN : Construct(1, Category, Sources, b_load)
    \/ \E b_reload \in BOOLEAN : Get(1, kAB, b_reload)
    \/ Info(1, kAB)

SpecParsers == InitParsers /\ [][NextParsers]_vars

(***************************************************************************)
(* SpecIncidents: severities change; the first directory also holds c.txt  *)
(***************************************************************************)
CategoryStar == <<"c", "*">>

\* directory 1 lists c.json then c.txt, directory 2 lists c.json
Disk3(data1, data2, data3) ==
    (Dir1 :> << [name |-> NameJson, data |-> data1], [name |-> NameTxt, data |-> data2] >>)
    @@ (Dir2 :> << [name |-> NameJson, data |-> data3] >>)

InitIncidents ==
    InitWith({Disk3(d1, TreeAB(5), d3) : d1 \in {TreeAB(1), TreeACB}, d3 \in {TreeAB(2), TreeACB}})

NextIncidents ==
    \/ \E i \in Incidents, s \in Severities \cup {3} : SetSeverity(i, s)
    \/ \E c \in {Category, CategoryStar}, b_load \in BOOLEAN : Construct(1, c, Sources, b_load)
    \/ \E k \in {kAB, kB, kStar}, b_reload \in BOOLEAN : Get(1, k, b_reload)
    \/ \E k \in {kAB, kB, kStar} : Info(1, k)

SpecIncidents == InitIncidents /\ [][NextIncidents]_vars

(***************************************************************************)
(* What the specification says a lookup and a transformation should give   *)
(***************************************************************************)
\* the whole list of segments followed through nested maps of one tree
RECURSIVE FullResolve(_, _)
FullResolve(data, parts) ==
    IF parts = <<>> THEN [ok |-> TRUE, value |-> data]
    ELSE IF IsDict(data) /\ HasKey(data, Head(parts))
         THEN FullResolve(Item(data, Head(parts)), Tail(parts))
         ELSE [ok |-> FALSE, value |-> NoValue]

\* file f has a parser and its tree resolves the whole key
DefinesKey(f, key) ==
    /\ ParserFor(D_PARSERS, f.ext) # "None"
    /\ FullResolve(Parse(ParserFor(D_PARSERS, f.ext), f.data), Split(key)).ok

ValueIn(f, key) == FullResolve(Parse(ParserFor(D_PARSERS, f.ext), f.data), Split(key)).value

DefiningFiles(files, key) == {i \in 1..Len(files) : DefinesKey(files[i], key)}

FirstDefining(files, key) ==
    CHOOSE i \in DefiningFiles(files, key) : \A j \in DefiningFiles(files, key) : i <= j

\* the rules that accept v, by position in the registration order
Accepting(xforms, v) == {i \in 1..Len(xforms) : RuleCheck(xforms[i], v)}

MostRecent(S) == CHOOSE i \in S : \A j \in S : j <= i

\* v after the most recently registered rule that accepts it, v itself when none does
Selected(xforms, v) ==
    IF Accepting(xforms, v) = {} THEN v
    ELSE RuleTransform(xforms[MostRecent(Accepting(xforms, v))], v)

\* the last call was op on a live manager
LastIs(op) == last.op = op /\ last.m \in alive

(***************************************************************************)
(* C1  Override precedence                                                 *)
(***************************************************************************)
\* C1 as claimed: for a key that has an override, get (reload or not) returns the
\* override value and info returns the label "override", whatever the cache holds.
C1_OverrideValueReturned ==
    /\ LastIs("get") /\ last.key \in DOMAIN D_OVERRIDES[last.m]
       => /\ last.st = "ok"
          /\ last.value.value = D_OVERRIDES[last.m][last.key][1]
    /\ LastIs("info") /\ last.key \in DOMAIN D_OVERRIDES[last.m]
       => last.st = "ok" /\ last.source = OVERRIDE

\* C1 amended: for a key that has an override, get (reload or not) returns the
\* override value after the manager's transformer selection (the override value
\* itself when no rule accepts it) and info returns the label "override", whatever
\* the cache and the files hold for the key; neither call touches the cache.
C1_OverridePrecedence ==
    /\ LastIs("get") /\ last.key \in DOMAIN D_OVERRIDES[last.m]
       => /\ last.st = "ok"
          /\ last.value.value =
                Selected(XAA_TRANSFORMERS[last.m], D_OVERRIDES[last.m][last.key][1])
          /\ Entry(D_DATA[last.m], last.key) = last.pre
    /\ LastIs("info") /\ last.key \in DOMAIN D_OVERRIDES[last.m]
       => /\ last.st = "ok" /\ last.source = OVERRIDE
          /\ Entry(D_DATA[last.m], last.key) = last.pre

\* a reloading get of an overridden key whose cache entry holds another value,
\* with a transformer registered
C1_Witness ==
    /\ LastIs("get") /\ last.reload /\ last.st = "ok"
    /\ last.key \in DOMAIN D_OVERRIDES[last.m]
    /\ last.key \in DOMAIN D_DATA[last.m]
    /\ D_DATA[last.m][last.key][1] # D_OVERRIDES[last.m][last.key][1]
    /\ XAA_TRANSFORMERS[last.m] # <<>>

(***************************************************************************)
(* C2  Reload bypass                                                       *)
(***************************************************************************)
\* the file the cache entry pre of key came from is still the first discovered
\* file that defines key, and now defines it with another value
ChangedUnderCache(m, key, pre) ==
    LET files == FilesOf(m)
    IN  /\ pre # <<>>
        /\ DefiningFiles(files, key) # {}
        /\ files[FirstDefining(files, key)].path = pre[2]
        /\ ValueIn(files[FirstDefining(files, key)], key) # pre[1]

\* C2: once a key is cached and the content of its file has changed, get without
\* reload still returns the cached value, and get with reload returns the value
\* now in the file and replaces the cache entry with it.
C2_ReloadBypass ==
    LastIs("get") /\ last.key \notin DOMAIN D_OVERRIDES[last.m]
    /\ XAA_TRANSFORMERS[last.m] = <<>>
    /\ ChangedUnderCache(last.m, last.key, last.pre)
    => LET files == FilesOf(last.m)
           f == files[FirstDefining(files, last.key)]
       IN  IF last.reload
           THEN /\ last.st = "ok"
                /\ last.value.value = ValueIn(f, last.key)
                /\ Entry(D_DATA[last.m], last.key) = <<ValueIn(f, last.key), f.path>>
           ELSE /\ last.st = "ok"
                /\ last.value.value = last.pre[1]
                /\ Entry(D_DATA[last.m], last.key) = last.pre

\* the half of C2 that holds: without reload a cached key is answered from the cache
C2_CachedWithoutReload ==
    LastIs("get") /\ ~last.reload /\ last.pre # <<>>
    /\ last.key \notin DOMAIN D_OVERRIDES[last.m] /\ XAA_TRANSFORMERS[last.m] = <<>>
    => /\ last.st = "ok"
       /\ last.value.value = last.pre[1]
       /\ Entry(D_DATA[last.m], last.key) = last.pre

(***************************************************************************)
(* C3  Search precedence                                                   *)
(***************************************************************************)
\* two discovered files define key, with different values
DefinedTwice(files, key) ==
    \E i, j \in DefiningFiles(files, key) :
        i < j /\ ValueIn(files[i], key) # ValueIn(files[j], key)

\* C3: when two discovered files define the same key with different values, every
\* get of that key on a fresh manager over unchanged files, eager or not, returns
\* the value of the file discovered first.
C3_SearchPrecedence ==
    LastIs("get") /\ DefinedTwice(FilesOf(last.m), last.key)
    /\ FirstDefining(FilesOf(last.m), last.key) = 1
    => /\ last.st = "ok"
       /\ last.value.value = ValueIn(FilesOf(last.m)[1], last.key)

(***************************************************************************)
(* C4  First full match wins in a fresh scan                               *)
(***************************************************************************)
\* some leading segments of parts lead, in this tree, to something that is no map
RECURSIVE PrefixHitsNonMap(_, _)
PrefixHitsNonMap(data, parts) ==
    /\ parts # <<>>
    /\ \/ ~IsDict(data)
       \/ HasKey(data, Head(parts)) /\ PrefixHitsNonMap(Item(data, Head(parts)), Tail(parts))

\* no discovered file holds a leaf or a list on a proper prefix of key
MapsOnly(files, key) ==
    \A i \in 1..Len(files) : ~PrefixHitsNonMap(files[i].data, Split(key))

\* the call scanned the files: no override, and not answered from the cache
Scanned == /\ last.op \in {"get", "info"} /\ last.m \in alive
           /\ last.key \notin DOMAIN D_OVERRIDES[last.m]
           /\ (last.pre = <<>> \/ last.reload)
           /\ ~Contains(last.key, "*")

\* C4: a scan returns and caches the value and path of the first discovered file
\* in which the whole key resolves, however many leading segments matched in the
\* files before it (stated for files with maps on every prefix of the key).
C4_FirstFullMatch ==
    Scanned /\ MapsOnly(FilesOf(last.m), last.key)
    /\ DefiningFiles(FilesOf(last.m), last.key) # {}
    => LET files == FilesOf(last.m)
           f == files[FirstDefining(files, last.key)]
       IN  /\ last.st = "ok"
           /\ last.op = "get" => last.value.value = ValueIn(f, last.key)
           /\ last.op = "info" => last.source = f.path
           /\ Entry(D_DATA[last.m], last.key) = <<ValueIn(f, last.key), f.path>>

(***************************************************************************)
(* C5  Missing key                                                         *)
(***************************************************************************)
\* C5: a key with no override, not cached, without wildcard, that no discovered
\* file resolves (also when a prefix of it leads to a leaf or a list) makes get and
\* info fail with the "Could not find" RGError and with no other error.
C5_MissingKey ==
    /\ last.op \in {"get", "info"} /\ last.m \in alive
    /\ last.key \notin DOMAIN D_OVERRIDES[last.m]
    /\ last.pre = <<>>
    /\ ~Contains(last.key, "*")
    /\ DefiningFiles(FilesOf(last.m), last.key) = {}
    => last.st = "RGError" /\ last.msg = "Could not find"


(***************************************************************************)
(* C6  Wildcard rejection                                                  *)
(***************************************************************************)
\* C6 as claimed: for every key containing "*", get fails with RGError and returns
\* no value, whatever overrides were set and whatever the cache holds.
C6_WildcardAlwaysRejected ==
    LastIs("get") /\ Contains(last.key, "*")
    => last.st = "RGError" /\ last.value = NoValue

\* C6 amended: for every key containing "*" that has no override and is not
\* answered from the cache (it is not cached, or reload is true), get fails with
\* the wildcard RGError, returns no value and leaves the cache entry as it was.
C6_WildcardRejection ==
    /\ LastIs("get") /\ Contains(last.key, "*")
    /\ last.key \notin DOMAIN D_OVERRIDES[last.m]
    /\ (last.pre = <<>> \/ last.reload)
    => /\ last.st = "RGError"
       /\ last.msg = "No wildcard search allowed yet!"
       /\ last.value = NoValue
       /\ Entry(D_DATA[last.m], last.key) = last.pre

\* a reloading get of a cached wildcard key, no override on it, is rejected
C6_Witness ==
    /\ LastIs("get") /\ Contains(last.key, "*") /\ last.reload
    /\ last.key \notin DOMAIN D_OVERRIDES[last.m]
    /\ last.pre # <<>>
    /\ D_OVERRIDES[last.m] # Empty
    /\ last.st = "RGError"

(***************************************************************************)
(* C7  Transformer application order                                       *)
(***************************************************************************)
\* the value _get_resource handed to the transformer loop of the last get: the
\* override if there is one, else the cache entry the lookup used or left
ResolvedValue ==
    IF last.key \in DOMAIN D_OVERRIDES[last.m]
    THEN D_OVERRIDES[last.m][last.key][1]
    ELSE D_DATA[last.m][last.key][1]

\* the rules a get evaluates: from the most recently registered one down to the
\* first that accepts v, all of them when none accepts
Evaluated(xforms, v) ==
    LET stop == IF Accepting(xforms, v) = {} THEN 1 ELSE MostRecent(Accepting(xforms, v))
    IN  [j \in 1..(Len(xforms) - stop + 1) |-> xforms[Len(xforms) - j + 1]]

\* C7: every get tries the rules from the most recently registered to the least
\* recently registered, applies the transform of the first rule whose predicate
\* accepts the resolved value to that value, evaluates no rule after it, and
\* returns the resolved value untransformed when no predicate accepts.
C7_TransformerOrder ==
    LastIs("get") /\ last.st = "ok"
    => /\ last.value = Wrap(Selected(XAA_TRANSFORMERS[last.m], ResolvedValue))
       /\ last.checked = Evaluated(XAA_TRANSFORMERS[last.m], ResolvedValue)

\* two rules registered, the newer one rejected the value, the older one was then
\* applied, and the newer one would have accepted the result
C7_Witness ==
    /\ LastIs("get") /\ last.st = "ok"
    /\ Len(XAA_TRANSFORMERS[last.m]) = 2
    /\ Len(last.checked) = 2
    /\ last.value.value # ResolvedValue
    /\ RuleCheck(XAA_TRANSFORMERS[last.m][2], last.value.value)


(***************************************************************************)
(* C8  Parser registration and dispatch ignore case                        *)
(***************************************************************************)
\* C8: after register_parser(format, parser), in any letter case of format, a file
\* whose extension equals format ignoring case is dispatched to parser.
C8_CaseInsensitiveRegistration ==
    last.op = "register_parser"
    => \A ext \in Formats :
          Lower(ext) = Lower(last.key) => ParserFor(D_PARSERS, ext) = last.msg

\* the part of C8 that holds: a format registered in lower case is dispatched to
\* the parser registered last for it, whatever the case of the file's extension
C8_LowerCaseRegistration ==
    last.op = "register_parser" /\ last.key = Lower(last.key)
    => \A ext \in Formats :
          Lower(ext) = last.key => ParserFor(D_PARSERS, ext) = last.msg

(***************************************************************************)
(* C9  Every fatal condition is downgradable                               *)
(***************************************************************************)
\* C9: once every incident is set to warning or informational, no construction,
\* get or info raises RGError: not for a wildcard in the key, not for a key no
\* file has, not for a missing parser during the eager load.
C9_EveryFatalDowngradable ==
    /\ \A i \in Incidents : severity[i] # ERROR
    /\ last.op \in {"init", "get", "info"}
    => last.st # "RGError"

\* the part of C9 that holds: with the incidents downgraded, construction does
\* not raise RGError
C9_ConstructionDowngradable ==
    /\ \A i \in Incidents : severity[i] # ERROR
    /\ last.op = "init"
    => last.st = "ok"

(***************************************************************************)
(* C10  Missing parser during eager load                                   *)
(***************************************************************************)
\* the files the constructor call recorded in last discovered
InitFiles == get_all_source_files(disk, last.key, Sources)

HasParser(f) == ParserFor(D_PARSERS, f.ext) # "None"

Flat(f) == d_flatten(Parse(ParserFor(D_PARSERS, f.ext), f.data), f.path, <<>>)

\* the discovered files with a parser that have the flattened key k
Holders(files, k) == {i \in 1..Len(files) : HasParser(files[i]) /\ k \in DOMAIN Flat(files[i])}

\* every flattened key of every file with a parser is cached
KeysPresent(files, data) ==
    \A i \in 1..Len(files) : HasParser(files[i]) => DOMAIN Flat(files[i]) \subseteq DOMAIN data

\* C10 as claimed: at default severity a discovered file without parser aborts only
\* its own load; construction goes on and the cache holds the other files' entries.
C10_OnlyThatFileSkipped ==
    /\ last.op = "init" /\ last.reload
    /\ severity = DefaultSeverity
    /\ \E i \in 1..Len(InitFiles) : ~HasParser(InitFiles[i])
    => /\ last.st = "ok"
       /\ last.m \in alive
       /\ KeysPresent(InitFiles, D_DATA[last.m])

\* C10 amended: with a discovered file without parser, eager construction at the
\* default (fatal) severity of the incident is aborted by RGError and leaves no
\* manager; with the incident set to warning or informational (and the category
\* wildcard notice not made fatal) only that file is skipped, and the cache holds
\* exactly the flattened keys of the other discovered files, each with the entry
\* of the earliest-discovered of them that has the key.
C10_MissingParser ==
    /\ last.op = "init" /\ last.reload
    /\ \E i \in 1..Len(InitFiles) : ~HasParser(InitFiles[i])
    => IF severity["UnknownExtension"] = ERROR
       THEN last.st = "RGError" /\ last.m \notin alive
       ELSE IF Contains(last.key, "*") /\ severity["Wildcard"] = ERROR
       THEN last.st = "RGError" /\ last.m \notin alive
       ELSE /\ last.st = "ok" /\ last.m \in alive
            /\ KeysPresent(InitFiles, D_DATA[last.m])
            /\ \A k \in DOMAIN D_DATA[last.m] :
                  /\ Holders(InitFiles, k) # {}
                  /\ \E i \in Holders(InitFiles, k) :
                        /\ \A j \in Holders(InitFiles, k) : i <= j
                        /\ D_DATA[last.m][k] = Flat(InitFiles[i])[k]

\* an eager construction that skipped a file without parser and loaded two others
C10_Witness ==
    /\ last.op = "init" /\ last.reload /\ last.st = "ok"
    /\ \E i \in 1..Len(InitFiles) : ~HasParser(InitFiles[i])
    /\ \E i, j \in 1..Len(InitFiles) :
          /\ i < j /\ HasParser(InitFiles[i]) /\ HasParser(InitFiles[j])
          /\ DOMAIN Flat(InitFiles[i]) # DOMAIN Flat(InitFiles[j])

(***************************************************************************)
(* SpecFlatten: eager and lazy managers over files of nested maps and      *)
(* sequences                                                               *)
(***************************************************************************)
kD == <<"d">>
k0A == <<"0", ".", "a">>
kACD == <<"a", ".", "c", ".", "d">>

\* {"a": {"b": 1, "c": {"d": 2}}}
TreeNested == Dict(<< <<kA, Dict(<< <<kB, Leaf(1)>>,
                                     <<kC, Dict(<< <<kD, Leaf(2)>> >>)>> >>)>> >>)
\* {"a": 1, "b": 2}
TreeFlat == Dict(<< <<kA, Leaf(1)>>, <<kB, Leaf(2)>> >>)
\* {"a": [10, 20]}
TreeA1020 == Dict(<< <<kA, List(<<Leaf(10), Leaf(20)>>)>> >>)
\* [{"a": 1}, {"a": 2}]
TreeListOfMaps == List(<< TreeA, Dict(<< <<kA, Leaf(2)>> >>) >>)
\* [1]
TreeListOfLeaf == List(<< Leaf(1) >>)
\* {"a": {"b": 1}, "a.b": 3}
TreeDotted == Dict(<< <<kA, Dict(<< <<kB, Leaf(1)>> >>)>>, <<kAB, Leaf(3)>> >>)
\* {"a": {}}
TreeEmptyMap == Dict(<< <<kA, Dict(<<>>)>> >>)

FlattenTrees == {TreeAB(1), TreeNested, TreeFlat, TreeA1020, TreeListOfMaps,
                 TreeListOfLeaf, TreeDotted, TreeEmptyMap}
FlattenKeys == {kA, kAB, kACD, k0A}

InitFlatten ==
    InitWith({Disk2(NameJson, d1, NameJson, d2) : d1 \in FlattenTrees,
                                                  d2 \in {TreeAB(2), TreeFlat}})

NextFlatten ==
    \/ \E source \in {<<Dir1>>, Sources}, b_load \in BOOLEAN :
          Construct(1, Category, source, b_load)
    \/ \E k \in FlattenKeys, b_reload \in BOOLEAN : Get(1, k, b_reload)
    \/ \E k \in FlattenKeys : Info(1, k)

SpecFlatten == InitFlatten /\ [][NextFlatten]_vars

(***************************************************************************)
(* What the specification says flattening should give                      *)
(***************************************************************************)
\* the dotted path of a leaf: the segments joined by "."
Joined(s_prefix, seg) == IF s_prefix = <<>> THEN seg ELSE s_prefix \o <<".">> \o seg

\* one record per non-collection leaf of data in visiting order: its dotted path
\* (map keys and sequence indices) and the leaf
RECURSIVE LeavesOf(_, _)
RECURSIVE LeavesOfItems(_, _, _)
RECURSIVE LeavesOfElems(_, _, _)
LeavesOfItems(items, i, s_prefix) ==
    IF i > Len(items) THEN <<>>
    ELSE LeavesOf(items[i][2], Joined(s_prefix, items[i][1]))
         \o LeavesOfItems(items, i + 1, s_prefix)

LeavesOfElems(elems, i, s_prefix) ==
    IF i > Len(elems) THEN <<>>
    ELSE LeavesOf(elems[i], Joined(s_prefix, StrOfNat(i - 1)))
         \o LeavesOfElems(elems, i + 1, s_prefix)

LeavesOf(data, s_prefix) ==
    IF IsDict(data) THEN LeavesOfItems(data.items, 1, s_prefix)
    ELSE IF IsList(data) THEN LeavesOfElems(data.elems, 1, s_prefix)
    ELSE << [key |-> s_prefix, leaf |-> data] >>

\* data holds a sequence somewhere
RECURSIVE HasSequence(_)
HasSequence(data) ==
    \/ IsList(data)
    \/ IsDict(data) /\ \E i \in 1..Len(data.items) : HasSequence(data.items[i][2])

\* every leaf of the tree has an entry under its dotted path, paired with s_path,
\* and there is no other entry and no two leaves share an entry
OneEntryPerLeaf(flattened, data, s_path) ==
    LET leaves == LeavesOf(data, <<>>)
    IN  /\ DOMAIN flattened = {leaves[i].key : i \in 1..Len(leaves)}
        /\ Cardinality(DOMAIN flattened) = Len(leaves)
        /\ \A i \in 1..Len(leaves) : flattened[leaves[i].key] = <<leaves[i].leaf, s_path>>

\* the last call built a manager with eager loading from the one file it discovered
EagerFromOneFile ==
    /\ LastIs("init") /\ last.reload /\ last.st = "ok"
    /\ Len(FilesOf(last.m)) = 1

\* the tree of the i-th file manager m discovers
TreeOf(m, i) == Parse(ParserFor(D_PARSERS, FilesOf(m)[i].ext), FilesOf(m)[i].data)

(***************************************************************************)
(* C11  Sequence flattening                                                *)
(***************************************************************************)
\* C11: the flattened form of a file's tree of maps and sequences (here the cache
\* an eager load of that one file leaves) has exactly one entry per non-collection
\* leaf, leaves inside sequences included, under the path of map keys and sequence
\* indices joined by ".", paired with the file's path.
C11_SequenceFlattening ==
    EagerFromOneFile
    => OneEntryPerLeaf(D_DATA[last.m], TreeOf(last.m, 1), FilesOf(last.m)[1].path)

(***************************************************************************)
(* C12  Override round trip                                                *)
(***************************************************************************)
\* manager m answers get and info on the key, and holds in its cache, what the
\* snapshot says
AnswersAsBefore(m, key, snap) ==
    /\ GetOutcome(m, key, FALSE) = snap.get
    /\ GetOutcome(m, key, TRUE) = snap.reget
    /\ InfoOutcome(m, key) = snap.info
    /\ D_DATA[m] = snap.cache

\* remove_override has just closed what was being followed
RoundTripDone == last.op = "remove_override" /\ before.valid /\ before.removed

\* C12 as claimed: for any key, after override(key, value), any number of get and
\* info calls on the key and remove_override(key), get and info on the key end and
\* answer as before the override and the cache is as it was; remove_override on a
\* key without override changes nothing.
C12_RoundTripAnyKey ==
    RoundTripDone
    => /\ AnswersAsBefore(last.m, last.key, before)
       /\ before.value = NoValue => D_OVERRIDES[last.m] = before.overrides

\* C12 amended: the same for a key that has no override when override(key, value)
\* is called; the override table too is then as it was.
C12_RoundTrip ==
    RoundTripDone /\ ~before.had
    => /\ AnswersAsBefore(last.m, last.key, before)
       /\ D_OVERRIDES[last.m] = before.overrides

\* a key that a file resolves was overridden with another value, asked for while
\* overridden, and its override removed
C12_Witness ==
    /\ RoundTripDone /\ ~before.had /\ before.asked
    /\ before.get.st = "ok"
    /\ before.value # NoValue
    /\ before.get.value # Wrap(ApplyTransformers(XAA_TRANSFORMERS[last.m], before.value).value)

\* the same round trip on a key that no file has
C12_WitnessNotFound ==
    /\ RoundTripDone /\ ~before.had /\ before.asked
    /\ before.get.st = "RGError"
    /\ before.value # NoValue

(***************************************************************************)
(* SpecCache: one manager, every operation of the manager and the parser   *)
(* registry, files that never change                                       *)
(***************************************************************************)
CacheKeys == {kAB, kB}

InitCache ==
    InitWith({Disk2(NameJson, d1, NameJson, TreeAB(2)) : d1 \in {TreeAB(1), TreeACB}})

NextCache ==
    \/ \E b_load \in BOOLEAN : Construct(1, Category, Sources, b_load)
    \/ \E k \in CacheKeys \cup {kStar}, b_reload \in BOOLEAN : Get(1, k, b_reload)
    \/ \E k \in CacheKeys \cup {kStar} : Info(1, k)
    \/ \E k \in CacheKeys : Override(1, k, Leaf(5))
    \/ \E k \in CacheKeys : RemoveOverride(1, k)
    \/ \E x_parser \in Parsers : RegisterParser(FmtJson, x_parser)
    \/ RegisterTransformer(1, "add10")

SpecCache == InitCache /\ [][NextCache]_vars

(***************************************************************************)
(* C13  Cache monotonicity                                                 *)
(***************************************************************************)
\* C13: no call removes a key from a manager's cache, and a call adds a key only
\* if it is the construction with eager loading, or a get or info of that key
\* that succeeds and is not answered from an override.
C13_CacheMonotonic ==
    [][\A m \in Managers :
          /\ DOMAIN D_DATA[m] \subseteq DOMAIN D_DATA'[m]
          /\ \A k \in (DOMAIN D_DATA'[m]) \ (DOMAIN D_DATA[m]) :
                \/ last'.op = "init" /\ last'.m = m /\ last'.reload
                \/ /\ last'.op \in {"get", "info"} /\ last'.m = m /\ last'.key = k
                   /\ last'.st = "ok"
                   /\ k \notin DOMAIN D_OVERRIDES[m]]_vars

\* a reload of a cached key has failed and the cache still holds the key, next to
\* another key
C13_Witness ==
    /\ LastIs("get") /\ last.reload /\ last.st # "ok"
    /\ last.pre # <<>>
    /\ last.key \in DOMAIN D_DATA[last.m]
    /\ Cardinality(DOMAIN D_DATA[last.m]) > 1

(***************************************************************************)
(* C14  Eager-load merge precedence                                        *)
(***************************************************************************)
\* the last call built a manager with eager loading
EagerBuilt == LastIs("init") /\ last.reload /\ last.st = "ok"

\* the position of the earliest-discovered file that has the flattened key k
Earliest(files, k) == CHOOSE i \in Holders(files, k) : \A j \in Holders(files, k) : i <= j

\* C14: after construction with eager loading, every flattened key of a discovered
\* file is cached with the value and the path of the earliest-discovered file that
\* has it: of that one among several files, of the only file that has it otherwise.
C14_EagerMergePrecedence ==
    EagerBuilt
    => \A i \in 1..Len(FilesOf(last.m)) :
          \A k \in DOMAIN Flat(FilesOf(last.m)[i]) :
             /\ k \in DOMAIN D_DATA[last.m]
             /\ D_DATA[last.m][k] =
                   Flat(FilesOf(last.m)[Earliest(FilesOf(last.m), k)])[k]

\* two discovered files have a flattened key in common, with different values, and
\* the second file has a key that the first lacks
C14_Witness ==
    /\ EagerBuilt
    /\ Len(FilesOf(last.m)) = 2
    /\ \E k \in DOMAIN Flat(FilesOf(last.m)[1]) \cap DOMAIN Flat(FilesOf(last.m)[2]) :
          Flat(FilesOf(last.m)[1])[k][1] # Flat(FilesOf(last.m)[2])[k][1]
    /\ \E k \in DOMAIN Flat(FilesOf(last.m)[2]) : k \notin DOMAIN Flat(FilesOf(last.m)[1])

(***************************************************************************)
(* C15  Map flattening                                                     *)
(***************************************************************************)
\* data is a map whose values are leaves or, recursively, such maps
OnlyMaps(data) == IsDict(data) /\ ~HasSequence(data)

\* the position of the last-visited leaf that has the dotted path k
LastAt(leaves, k) ==
    CHOOSE i \in 1..Len(leaves) :
       /\ leaves[i].key = k
       /\ \A j \in 1..Len(leaves) : leaves[j].key = k => j <= i

\* no two leaves have the same dotted path
DistinctPaths(leaves) ==
    \A i, j \in 1..Len(leaves) : leaves[i].key = leaves[j].key => i = j

\* C15 as claimed: the flattened form of any tree made only of nested maps (here
\* the cache an eager load of that one file leaves) has exactly one entry per leaf,
\* under the map keys on the path to the leaf joined by ".", paired with the leaf
\* and the file's path, and no other entry.
C15_OneEntryPerMapLeaf ==
    EagerFromOneFile /\ OnlyMaps(TreeOf(last.m, 1))
    => OneEntryPerLeaf(D_DATA[last.m], TreeOf(last.m, 1), FilesOf(last.m)[1].path)

\* C15 amended: the flattened form of a tree made only of nested maps has exactly
\* the dotted paths of the leaves as keys, each paired with the file's path and
\* with the leaf of that path, the last-visited one when several leaves have the
\* same dotted path; it has exactly one entry per leaf when the dotted paths of
\* the leaves are distinct.
C15_MapFlattening ==
    EagerFromOneFile /\ OnlyMaps(TreeOf(last.m, 1))
    => LET leaves == LeavesOf(TreeOf(last.m, 1), <<>>)
           s_path == FilesOf(last.m)[1].path
       IN  /\ DOMAIN D_DATA[last.m] = {leaves[i].key : i \in 1..Len(leaves)}
           /\ \A k \in DOMAIN D_DATA[last.m] :
                 D_DATA[last.m][k] = <<leaves[LastAt(leaves, k)].leaf, s_path>>
           /\ DistinctPaths(leaves) => Cardinality(DOMAIN D_DATA[last.m]) = Len(leaves)

\* a map with a leaf two maps deep and a leaf three maps deep has been flattened
C15_Witness ==
    /\ EagerFromOneFile /\ OnlyMaps(TreeOf(last.m, 1))
    /\ kAB \in DOMAIN D_DATA[last.m]
    /\ kACD \in DOMAIN D_DATA[last.m]

\* a single-level map has been flattened
C15_WitnessFlat ==
    /\ EagerFromOneFile /\ TreeOf(last.m, 1) = TreeFlat
    /\ DOMAIN D_DATA[last.m] = {kA, kB}

(***************************************************************************)
(* C16  Overrides are still transformed                                    *)
(***************************************************************************)
\* the last call was a get of a key whose override value a registered rule accepts
GetOfAcceptedOverride ==
    /\ LastIs("get")
    /\ last.key \in DOMAIN D_OVERRIDES[last.m]
    /\ Accepting(XAA_TRANSFORMERS[last.m], D_OVERRIDES[last.m][last.key][1]) # {}

\* C16: a get of a key whose override value is accepted by a registered rule
\* returns that value transformed by the rule selected as for any resolved value
\* (the most recently registered rule that accepts it), and the override table
\* still holds the value that was given to override, untransformed.
C16_OverrideTransformed ==
    GetOfAcceptedOverride
    => LET v == D_OVERRIDES[last.m][last.key][1]
           rule == XAA_TRANSFORMERS[last.m][MostRecent(Accepting(XAA_TRANSFORMERS[last.m], v))]
       IN  /\ last.st = "ok"
           /\ last.value = Wrap(RuleTransform(rule, v))
           /\ Following(last.m, last.key)
              => D_OVERRIDES[last.m][last.key] = <<before.value, OVERRIDE>>

\* an override set after two rules were registered, both accepting its value, has
\* been asked for
C16_Witness ==
    /\ GetOfAcceptedOverride
    /\ Following(last.m, last.key)
    /\ Cardinality(Accepting(XAA_TRANSFORMERS[last.m], before.value)) = 2
    /\ last.value.value # before.value
    /\ XAA_TRANSFORMERS[last.m][1] # XAA_TRANSFORMERS[last.m][2]

(***************************************************************************)
(* SpecTwo: two managers over the same two directories, the first built    *)
(* with eager loading, the second without; one parser registry             *)
(***************************************************************************)
InitTwo == InitWith({Disk2(NameJson, TreeAB(1), NameJson, TreeAB(2))})

NextTwo ==
    \/ Construct(1, Category, Sources, TRUE)
    \/ Construct(2, Category, Sources, FALSE)
    \/ \E m \in Managers, b_reload \in BOOLEAN : Get(m, kAB, b_reload)
    \/ \E m \in Managers : Info(m, kAB)
    \/ \E m \in Managers : Override(m, kAB, Leaf(5))
    \/ \E m \in Managers : RemoveOverride(m, kAB)
    \/ \E m \in Managers : RegisterTransformer(m, "add10")
    \/ RegisterParser(FmtJson, "custom")

SpecTwo == InitTwo /\ [][NextTwo]_vars

(***************************************************************************)
(* C17  Per-manager isolation                                              *)
(***************************************************************************)
\* what manager m reads after the step
ViewNext(m) ==
    [files |-> get_all_source_files(disk', S_PREFIX'[m], SOURCE'[m]),
     parsers |-> D_PARSERS', overrides |-> D_OVERRIDES'[m], data |-> D_DATA'[m],
     xforms |-> XAA_TRANSFORMERS'[m]]

\* what a manager that reads v answers for key k: to get, to get with reload, to info
AnswersOf(v, k) ==
    LET files == v.files
        w == [v EXCEPT !.files = files]
    IN  <<GetOutcomeOf(w, k, FALSE), GetOutcomeOf(w, k, TRUE), InfoOutcomeOf(w, k)>>

\* what a reloading get of key k answers when the first discovered file of m is
\* parsed by parser x_parser and resolves the key
ScannedWith(m, k, x_parser) ==
    LET v == FullResolve(Parse(x_parser, FilesOf(m)[1].data), Split(k))
    IN  [st |-> "ok", msg |-> "", value |-> Wrap(Selected(XAA_TRANSFORMERS[m], v.value))]

\* C17: a step that is override, remove_override or register_transformer of one
\* manager leaves what every other manager answers to get and info, and what it
\* holds, unchanged; a step that is register_parser(format, parser) makes every
\* manager dispatch the files whose lower-cased extension is format to parser, so
\* the next scan of each manager answers from the files as that parser reads them.
C17_Isolation ==
    [][\A m \in Managers :
          /\ /\ last'.op \in {"override", "remove_override", "register_transformer"}
             /\ last'.m # m
             /\ m \in alive
             => /\ AnswersOf(ViewNext(m), kAB) = AnswersOf(View(m), kAB)
                /\ D_DATA'[m] = D_DATA[m]
                /\ D_OVERRIDES'[m] = D_OVERRIDES[m]
                /\ XAA_TRANSFORMERS'[m] = XAA_TRANSFORMERS[m]
          /\ /\ last'.op = "register_parser"
             /\ m \in alive
             => \A i \in 1..Len(FilesOf(m)) :
                   Lower(FilesOf(m)[i].ext) = last'.key
                   => /\ ParserFor(D_PARSERS', FilesOf(m)[i].ext) = last'.msg
                      /\ i = 1 /\ kAB \notin DOMAIN D_OVERRIDES[m]
                         => GetOutcomeOf(ViewNext(m), kAB, TRUE)
                               = ScannedWith(m, kAB, last'.msg)]_vars

\* manager 1 has just set an override for a key while manager 2 holds the key in
\* its cache and has a transformer of its own, and the two answer differently
C17_Witness ==
    /\ last.op = "override" /\ last.m = 1
    /\ alive = Managers
    /\ kAB \in DOMAIN D_DATA[2]
    /\ XAA_TRANSFORMERS[2] # <<>>
    /\ XAA_TRANSFORMERS[1] = <<>>
    /\ GetOutcome(1, kAB, FALSE) # GetOutcome(2, kAB, FALSE)

\* a parser has just been registered for the extension of the files of two
\* managers that both hold an entry read by the parser registered before
C17_WitnessParser ==
    /\ last.op = "register_parser" /\ last.key = FmtJson
    /\ alive = Managers
    /\ \A m \in Managers :
          /\ kAB \in DOMAIN D_DATA[m]
          /\ GetOutcome(m, kAB, TRUE) # GetOutcome(m, kAB, FALSE)

(***************************************************************************)
(* C18  Eager and lazy resolution agree                                    *)
(***************************************************************************)
\* what a fresh manager over the category, directories and files of manager m
\* reads, built with eager loading (b_load) or without
FreshView(m, b_load) ==
    [files |-> FilesOf(m), parsers |-> D_PARSERS, overrides |-> Empty,
     data |-> init(disk, D_PARSERS, severity, S_PREFIX[m], SOURCE[m], b_load).data,
     xforms |-> <<>>]

\* the flattened keys of the files manager m discovers
FlattenedKeys(m) == UNION {DOMAIN Flat(FilesOf(m)[i]) : i \in 1..Len(FilesOf(m))}

\* C18: for the category, directories and files of a manager just built, and every
\* flattened key of the discovered files, get and info end the same way and return
\* the same value and the same path whether the manager was built with eager
\* loading or without.
C18_EagerLazyAgree ==
    LastIs("init") /\ last.st = "ok"
    => \A k \in FlattenedKeys(last.m) :
          /\ GetOutcomeOf(FreshView(last.m, TRUE), k, FALSE)
                = GetOutcomeOf(FreshView(last.m, FALSE), k, FALSE)
          /\ InfoOutcomeOf(FreshView(last.m, TRUE), k)
                = InfoOutcomeOf(FreshView(last.m, FALSE), k)

(***************************************************************************)
(* C19  State unchanged on failure                                         *)
(***************************************************************************)
\* the step is a get or info of manager m on key k that raised
FailedLookup(m, k) ==
    /\ last'.op \in {"get", "info"} /\ last'.m = m /\ last'.key = k
    /\ last'.st # "ok"

\* C19: a get or info that raises leaves every manager's cache, override table
\* and transformer list as they were; if the key was cached (the call was a get
\* with reload) its entry is still there, and a get of the key without reload
\* made next succeeds with the old value, transformed as any value.
C19_UnchangedOnFailure ==
    [][\A m \in Managers, k \in CacheKeys \cup {kStar} :
          FailedLookup(m, k)
          => /\ D_DATA' = D_DATA
             /\ D_OVERRIDES' = D_OVERRIDES
             /\ XAA_TRANSFORMERS' = XAA_TRANSFORMERS
             /\ k \in DOMAIN D_DATA[m]
                => /\ last'.op = "get" /\ last'.reload
                   /\ GetOutcomeOf(ViewNext(m), k, FALSE)
                         = [st |-> "ok", msg |-> "",
                            value |-> Wrap(Selected(XAA_TRANSFORMERS[m], D_DATA[m][k][1]))]]_vars

\* a reload of a cached key has failed in a manager that has an override for
\* another key and a transformer
C19_Witness ==
    /\ LastIs("get") /\ last.reload /\ last.st # "ok"
    /\ last.pre # <<>>
    /\ D_OVERRIDES[last.m] # Empty
    /\ XAA_TRANSFORMERS[last.m] # <<>>

\* a lookup of a wildcard key, and one of a key no file has, have failed
C19_WitnessWildcard ==
    /\ LastIs("info") /\ last.st = "RGError" /\ last.key = kStar
    /\ D_DATA[last.m] # Empty

C19_WitnessNotFound ==
    /\ LastIs("get") /\ last.st = "RGError" /\ last.msg = "Could not find"
    /\ D_DATA[last.m] # Empty

(***************************************************************************)
(* C20  Cache and override table stay separate                             *)
(***************************************************************************)
\* the paths of the files manager m discovers after the step
PathsNext(m) ==
    LET files == get_all_source_files(disk', S_PREFIX'[m], SOURCE'[m])
    IN  {files[i].path : i \in 1..Len(files)}

\* the step is override or remove_override of manager m on key k, or a get or
\* info of m on k that the override table answers
OverrideStep(m, k) ==
    /\ last'.m = m /\ last'.key = k
    /\ \/ last'.op \in {"override", "remove_override"}
       \/ last'.op \in {"get", "info"} /\ k \in DOMAIN D_OVERRIDES[m]

\* what manager m reads after the step, had it had no override for key k
ViewNextWithout(m, k) ==
    [ViewNext(m) EXCEPT !.overrides = [j \in (DOMAIN D_OVERRIDES[m]) \ {k} |-> D_OVERRIDES[m][j]]]

\* C20: after every step every override entry has the label "override" and every
\* cache entry has the path of a file the manager discovers, which is never that
\* label; override, remove_override and a get or info answered from the override
\* table leave the cache as it is; and after remove_override of a key that had an
\* override, get and info answer for the key what they would answer had the
\* override never been set, info never the label.
C20_CacheAndOverridesSeparate ==
    [][\A m \in Managers :
          /\ \A k \in DOMAIN D_OVERRIDES'[m] : D_OVERRIDES'[m][k][2] = OVERRIDE
          /\ \A k \in DOMAIN D_DATA'[m] :
                /\ D_DATA'[m][k][2] \in PathsNext(m)
                /\ D_DATA'[m][k][2] # OVERRIDE
          /\ \A k \in CacheKeys :
                /\ OverrideStep(m, k) => D_DATA' = D_DATA
                /\ /\ last'.op = "remove_override" /\ last'.m = m /\ last'.key = k
                   /\ k \in DOMAIN D_OVERRIDES[m]
                   => /\ AnswersOf(ViewNext(m), k) = AnswersOf(ViewNextWithout(m, k), k)
                      /\ InfoOutcomeOf(ViewNext(m), k).source # OVERRIDE]_vars

\* the override of a key has just been removed, after it was asked for, and the
\* cache holds for the key another value than the override had
C20_Witness ==
    /\ last.op = "remove_override" /\ before.valid /\ before.removed /\ before.asked
    /\ before.value # NoValue
    /\ last.key \in DOMAIN D_DATA[last.m]
    /\ D_DATA[last.m][last.key][1] # before.value

====
